---------------------------- MODULE Spec2Model ----------------------------
(***************************************************************************)
(* Content Hoarder (src/src/index.ts): a plugin that stores content pieces *)
(* and articles as individually keyed records plus one index list per      *)
(* collection in a host-supplied key/value store, and answers seven named  *)
(* actions through ContentHoarderTrik.invoke.                              *)
(*                                                                         *)
(* The key/value store is modelled by four variables (the two record maps  *)
(* and the two index lists).  invoke and the handlers are async functions  *)
(* that await every call of the store, of the network and of the model,    *)
(* and take no lock: an invocation is in flight from the call of invoke to *)
(* its return, and one step of the state machine is what one invocation    *)
(* does from the call of invoke, or from the await it is suspended at, to  *)
(* its next await or to its return.  Every handler is one operator that    *)
(* threads a context record through its interactions with the world in the *)
(* order of the source.  An invocation in flight keeps the journal of the  *)
(* interactions it has had; a step runs the handler over the journal, has  *)
(* the interactions that follow it, and stops at the first awaited call it *)
(* makes.  A call of the store takes effect when it is made, as in the     *)
(* repository's in-memory store.                                           *)
(***************************************************************************)
EXTENDS Integers, Sequences, FiniteSets, TLC

VARIABLES
    content,        \* storage keys content:{id}: a function from the stored ids to ContentPiece
    contentIndex,   \* storage key content:index: a sequence of ids
    article,        \* storage keys article:{id}: a function from the stored ids to Article
    articleIndex,   \* storage key article:index: a sequence of ids
    now,            \* the wall clock read by new Date()
    nextId,         \* the number of ids generateId has handed out
    inflight,       \* the invocations that were called and have not returned, each with
                    \* what it was called with and the journal of its interactions
    call,           \* the invocation that took the last step: action, input, whether
                    \* storage was passed, what the world answers it (env) and which
                    \* exception was thrown in it (fault)
    result,         \* the ActionResult that step returned to the caller of invoke, or
                    \* pending when the invocation is suspended at an await
    before          \* the store as it was when invoke was last called

vars == <<content, contentIndex, article, articleIndex, now, nextId, inflight, call, result,
          before>>

-----------------------------------------------------------------------------
(* Bounds of the model *)

MaxIds == 2         \* ids generateId may hand out in one behaviour
MaxPieces == 3      \* the same, in the behaviours that only collect content
MaxClock == 1       \* the clock stops advancing here
MaxFeedItems == 2   \* items of a parsed feed
MaxVersion == 3     \* revisions of one article are capped at this version
MaxFailAt == 4      \* a storage fault hits one of the first MaxFailAt storage calls
MaxInFlight == 2    \* invocations in flight at the same time, where the host lets them overlap

(* Program constants *)

DefaultLimit == 20  \* the limit of a listing that names none

-----------------------------------------------------------------------------
(* Generic helpers: JavaScript array and object semantics *)

Has(rec, f) == f \in DOMAIN rec

Includes(s, x) == \E i \in 1..Len(s) : s[i] = x

Range(s) == { s[i] : i \in 1..Len(s) }

Put(f, k, v) == [ x \in (DOMAIN f) \cup {k} |-> IF x = k THEN v ELSE f[x] ]

Remove(f, k) == [ x \in (DOMAIN f) \ {k} |-> f[x] ]

\* Array.prototype.slice(start, end), negative arguments counted from the end
Slice(s, start, end) ==
    LET len == Len(s)
        at(i) == IF i < 0 THEN (IF len + i > 0 THEN len + i ELSE 0)
                 ELSE IF i < len THEN i ELSE len
        k   == at(start)
        fin == at(end)
    IN  SubSeq(s, k + 1, fin)

\* the spread without the Set
NoDedup(s) == s

\* [...new Set(s)]: first occurrences, in order
RECURSIVE Dedup(_)
Dedup(s) ==
    IF s = <<>> THEN <<>>
    ELSE LET init == Dedup(SubSeq(s, 1, Len(s) - 1))
             x    == s[Len(s)]
         IN  IF Includes(init, x) THEN init ELSE Append(init, x)

\* Array.prototype.sort with comparator time(b[field]) - time(a[field]): a stable
\* sort, descending by the field.  toISOString and new Date(..).getTime() round-trip
\* a millisecond count exactly, so a timestamp is kept as its millisecond count.
RECURSIVE InsertDesc(_, _, _)
InsertDesc(sorted, x, field) ==
    IF sorted = <<>> THEN <<x>>
    ELSE IF Head(sorted)[field] >= x[field]
         THEN <<Head(sorted)>> \o InsertDesc(Tail(sorted), x, field)
         ELSE <<x>> \o sorted

RECURSIVE SortDescBy(_, _)
SortDescBy(s, field) ==
    IF s = <<>> THEN <<>>
    ELSE InsertDesc(SortDescBy(SubSeq(s, 1, Len(s) - 1), field), s[Len(s)], field)

\* An object literal with the optional field left out, and two objects spread together
Empty == [ k \in {} |-> 0 ]

Field(name, v) == [ k \in {name} |-> v ]

Merge(r1, r2) ==
    [ k \in (DOMAIN r1) \cup (DOMAIN r2) |-> IF k \in DOMAIN r1 THEN r1[k] ELSE r2[k] ]

-----------------------------------------------------------------------------
(* The invocation context of one step: the store, the clock and the id      *)
(* source as they are now, the journal of the interactions the invocation   *)
(* has had in its earlier steps, the store as it was when invoke was called *)
(* (found), and the environment's choice of which                           *)
(* storage call (if any) rejects and of what a rejecting collaborator (the  *)
(* store, the model client) rejects with.                                   *)

\* t: the invocation; found: the store as it was when invoke was called
NewCtx(t, found) ==
    [ content |-> content, contentIndex |-> contentIndex,
      article |-> article, articleIndex |-> articleIndex,
      now |-> now, nextId |-> nextId,
      found |-> found, failAt |-> t.failAt, rejection |-> t.rejection, log |-> t.log,
      pos |-> 0, calls |-> 0, threw |-> FALSE, suspended |-> FALSE,
      fault |-> "none", msg |-> "", isError |-> TRUE, val |-> 0 ]

\* What follows an interaction: K applied to the context the interaction leaves
Then(c, K(_)) == K(c)

\* control has left the code that follows: an exception is on its way to a catch
\* clause, or the invocation is suspended at the awaited call it has just made
Stopped(c) == c.threw \/ c.suspended

\* throw new Error(m), a TypeError of the runtime
Throw(c, kind, m) == [c EXCEPT !.threw = TRUE, !.fault = kind, !.msg = m]

\* an awaited call of a collaborator has rejected: with an Error whose message is m,
\* or with a value that is no Error
Reject(c, kind, m) == [Throw(c, kind, m) EXCEPT !.isError = (c.rejection = "Error")]

\* the next interaction is in the journal: it was had in an earlier step
Replaying(c) == c.pos < Len(c.log)

\* the interaction is taken from the journal, and so is what it answered
Replay(c) == [c EXCEPT !.pos = @ + 1, !.val = c.log[c.pos + 1].val]

Entry(op, key, id, rejected, val) ==
    [ val |-> val, op |-> op, key |-> key, id |-> id, rejected |-> rejected ]

\* what an awaited call rejects with, by the collaborator called
FaultOf(op) ==
    CASE op \in { "get", "set", "delete" } -> [ msg |-> "storage failure", kind |-> "storage" ]
      [] op \in { "parseURL", "fetch", "text" } -> [ msg |-> "fetch failed", kind |-> "fetch" ]
      [] OTHER                             -> [ msg |-> "model call failed", kind |-> "model" ]

\* An interaction that is not awaited (an id drawn, the clock read, a field of a
\* shared object read or assigned): after is the context once it has happened,
\* after.val what it answered
Sync(c, op, key, id, after) ==
    IF Stopped(c) THEN c
    ELSE IF Replaying(c) THEN Replay(c)
    ELSE [after EXCEPT !.log = Append(@, Entry(op, key, id, FALSE, after.val)),
                       !.pos = @ + 1]

\* An awaited call.  Made in this step: it takes effect (after), or it will
\* reject and has none, and the invocation is suspended.  Made in an earlier
\* step: the invocation goes on with what it answered, or with the exception
Await(c, op, key, id, rejects, after) ==
    IF Stopped(c) THEN c
    ELSE IF Replaying(c)
         THEN IF c.log[c.pos + 1].rejected
              THEN Reject([c EXCEPT !.pos = @ + 1], FaultOf(op).kind, FaultOf(op).msg)
              ELSE Replay(c)
         ELSE IF rejects
              THEN [c EXCEPT !.log = Append(@, Entry(op, key, id, TRUE, 0)),
                             !.suspended = TRUE]
              ELSE [after EXCEPT !.log = Append(@, Entry(op, key, id, FALSE, after.val)),
                                 !.suspended = TRUE]

\* await storage.get / storage.set / storage.delete
StorageCall(c, op, key, id, after) ==
    IF Stopped(c) THEN c
    ELSE Await([c EXCEPT !.calls = @ + 1], op, key, id,
               c.failAt # 0 /\ c.calls + 1 = c.failAt,
               [after EXCEPT !.calls = @ + 1])

\* an id source that repeats itself
ReusedId(c) == 1

\* generateId: crypto.randomBytes(8), modelled as an id never handed out before
GenerateId(c) == c.nextId + 1

\* a call of generateId: the id is used up
NewId(c) == Sync(c, "id", "", 0, [c EXCEPT !.nextId = @ + 1, !.val = GenerateId(c)])

\* new Date(): the clock has advanced by tick since it was last read
ReadClock(c, tick) == Sync(c, "date", "", 0, [c EXCEPT !.now = @ + tick, !.val = c.now + tick])

-----------------------------------------------------------------------------
(* Storage helpers.  What storage.get answers is a sequence: empty for null, *)
(* else the one value stored.                                               *)

\* the null test left out
ContentAlwaysFound(v) == TRUE

\* if (content), content being (await storage.get(key)) || null
ContentFound(v) == v # <<>>

ArticleFound(v) == v # <<>>

\* getContentIndex: (await storage.get('content:index')) || []
GetContentIndex(c) ==
    StorageCall(c, "get", "content:index", 0, [c EXCEPT !.val = c.contentIndex])

SetContentIndex(c, index) ==
    StorageCall(c, "set", "content:index", 0, [c EXCEPT !.contentIndex = index])

\* getContent: storage.get('content:' + id)
GetContent(c, id) ==
    StorageCall(c, "get", "content", id,
                [c EXCEPT !.val = IF id \in DOMAIN c.content THEN <<c.content[id]>>
                                  ELSE <<>>])

\* the index written with nothing kept of what was read
IndexOfOne(index, id) == <<id>>

\* setContent: [...index, id]
IndexWith(index, id) == Append(index, id)

\* deleteContentById: index.filter((i) => i !== id)
IndexWithout(index, id) == SelectSeq(index, LAMBDA i : i # id)

\* storage.set('content:' + id, content)
StoreContent(c, piece) ==
    StorageCall(c, "set", "content", piece.id, [c EXCEPT !.content = Put(@, piece.id, piece)])

\* setContent without its index update
SetContentNoIndex(c, piece) == StoreContent(c, piece)

\* setContent with the index written before the record
SetContentIndexFirst(c, piece) ==
    Then(GetContentIndex(c), LAMBDA c1 :
    Then(IF Stopped(c1) \/ Includes(c1.val, piece.id) THEN c1
         ELSE SetContentIndex(c1, IndexWith(c1.val, piece.id)), LAMBDA c2 :
        StoreContent(c2, piece)))

\* setContent: storage.set(record); getContentIndex; append unless included
SetContent(c, piece) ==
    Then(StoreContent(c, piece), LAMBDA c1 :
    Then(GetContentIndex(c1), LAMBDA c2 :
        IF Stopped(c2) \/ Includes(c2.val, piece.id) THEN c2
        ELSE SetContentIndex(c2, IndexWith(c2.val, piece.id))))

\* storage.delete('content:' + id): whether there was a record
RemoveContent(c, id) ==
    StorageCall(c, "delete", "content", id,
                [c EXCEPT !.content = Remove(@, id), !.val = id \in DOMAIN c.content])

\* what the function returns when nothing has stopped it
Answering(c, v) == IF Stopped(c) THEN c ELSE [c EXCEPT !.val = v]

\* deleteContentById without its index update
DeleteContentByIdKeepIndex(c, id) == RemoveContent(c, id)

\* deleteContentById that also strikes the id from every article's sources
DeleteContentByIdCascade(c, id) ==
    StorageCall(c, "delete", "content", id,
                [c EXCEPT
                    !.content = Remove(@, id),
                    !.contentIndex = SelectSeq(@, LAMBDA i : i # id),
                    !.article = [ a \in DOMAIN c.article |->
                                    [c.article[a] EXCEPT
                                        !.sourceContentIds = SelectSeq(@, LAMBDA i : i # id)] ],
                    !.val = id \in DOMAIN c.content])

\* deleteContentById filtering the index whether or not a record was removed
DeleteContentByIdAlwaysFilter(c, id) ==
    Then(RemoveContent(c, id), LAMBDA c1 :
        IF Stopped(c1) THEN c1
        ELSE Then(GetContentIndex(c1), LAMBDA c2 :
                Answering(SetContentIndex(c2, IndexWithout(c2.val, id)), c1.val)))

\* deleteContentById: storage.delete(record); if it removed something, read the index
\* and write it back without the id
DeleteContentById(c, id) ==
    Then(RemoveContent(c, id), LAMBDA c1 :
        IF Stopped(c1) \/ ~c1.val THEN c1
        ELSE Then(GetContentIndex(c1), LAMBDA c2 :
                Answering(SetContentIndex(c2, IndexWithout(c2.val, id)), c1.val)))

\* getArticleIndex: (await storage.get('article:index')) || []
GetArticleIndex(c) ==
    StorageCall(c, "get", "article:index", 0, [c EXCEPT !.val = c.articleIndex])

SetArticleIndex(c, index) ==
    StorageCall(c, "set", "article:index", 0, [c EXCEPT !.articleIndex = index])

\* getArticle: storage.get('article:' + id).  The repository's store hands out the
\* stored object itself, so what the caller holds is a reference: the fields are
\* read, and assigned, in the store
GetArticle(c, id) ==
    StorageCall(c, "get", "article", id,
                [c EXCEPT !.val = IF id \in DOMAIN c.article THEN <<id>> ELSE <<>>])

\* the fields of the article object, as they are when they are read
ArticleFields(c, id) == Sync(c, "read", "article", id, [c EXCEPT !.val = c.article[id]])

\* the assignments to the fields of the article object
AssignArticle(c, art) ==
    Sync(c, "assign", "article", art.id, [c EXCEPT !.article = Put(@, art.id, art)])

\* storage.set('article:' + id, article)
StoreArticle(c, art) ==
    StorageCall(c, "set", "article", art.id, [c EXCEPT !.article = Put(@, art.id, art)])

\* setArticle appending to the index without the test
SetArticleAlwaysIndexed(c, art) ==
    Then(StoreArticle(c, art), LAMBDA c1 :
    Then(GetArticleIndex(c1), LAMBDA c2 :
        IF Stopped(c2) THEN c2
        ELSE SetArticleIndex(c2, Append(c2.val, art.id))))

\* setArticle: storage.set(record); getArticleIndex; append unless included
SetArticle(c, art) ==
    Then(StoreArticle(c, art), LAMBDA c1 :
    Then(GetArticleIndex(c1), LAMBDA c2 :
        IF Stopped(c2) \/ Includes(c2.val, art.id) THEN c2
        ELSE SetArticleIndex(c2, Append(c2.val, art.id))))

-----------------------------------------------------------------------------
(* What the outside world answers during an invocation.  The answers of the  *)
(* network, of the model and of the clock are drawn when invoke is called    *)
(* and kept with the invocation (e); each is handed over at the interaction  *)
(* that asks for it.                                                        *)

Urls == { "https://example.com" }

\* Results of fetchSingleContent (title and whitespace-collapsed text of the page)
Pages == { [content |-> "page text", title |-> "Example Domain"] }

\* feed.items as rss-parser returns them: every field of an item is optional
RawFeeds ==
    UNION { [1..n -> { [title |-> "Post", summary |-> "summary"] }] : n \in 0..MaxFeedItems }

\* fetchFeedContent's map over feed.items
FeedItem(raw, url) ==
    [ content |-> IF Has(raw, "contentSnippet") /\ raw.contentSnippet # ""
                  THEN raw.contentSnippet
                  ELSE IF Has(raw, "content") /\ raw.content # "" THEN raw.content
                  ELSE IF Has(raw, "summary") /\ raw.summary # "" THEN raw.summary
                  ELSE "",
      title   |-> IF Has(raw, "title") /\ raw.title # "" THEN raw.title ELSE "Untitled",
      link    |-> IF Has(raw, "link") /\ raw.link # "" THEN raw.link ELSE url ]

\* detectUrlType: await rssParser.parseURL(url) inside try/catch; e.detect is 'feed'
\* when the parse succeeded and 'single' when it threw
DetectUrlType(c, e) == Await(c, "parseURL", "", 0, FALSE, [c EXCEPT !.val = e.detect])

\* fetchFeedContent: await rssParser.parseURL(url), then the map over feed.items
FetchFeedContent(c, url, e) ==
    Await(c, "parseURL", "", 0, e.fetchThrows,
          [c EXCEPT !.val = [ i \in 1..Len(e.feed) |-> FeedItem(e.feed[i], url) ]])

\* fetchSingleContent: await fetch(url), which answers a Response, then await
\* response.text(), which answers the html; title and content are a function of the
\* html alone, and e.page is what they come to
FetchSingleContent(c, e) ==
    Then(Await(c, "fetch", "", 0, e.fetchThrows, [c EXCEPT !.val = "Response"]), LAMBDA c1 :
        Await(c1, "text", "", 0, e.textThrows, [c1 EXCEPT !.val = e.page]))

-----------------------------------------------------------------------------
(* Result envelopes *)

Template(data) == [ responseMode |-> "template", agentData |-> data ]

Passthrough(data) == [ responseMode |-> "passthrough", userContent |-> data ]

\* A handler's outcome in one step: the context it leaves, and the ActionResult it
\* returned, or the exception it let escape (raised), or neither yet (suspended)
Returned(c, r) == [ result |-> r, ctx |-> c, raised |-> FALSE ]

Raised(c) == [ result |-> [responseMode |-> "exception"], ctx |-> c, raised |-> TRUE ]

\* the caller of invoke has a pending promise in hand
Suspended(c) == [ result |-> [responseMode |-> "pending"], ctx |-> c, raised |-> FALSE ]

Unreturned(c) == IF c.threw THEN Raised(c) ELSE Suspended(c)

-----------------------------------------------------------------------------
(* Action handlers: content *)

\* the ContentPiece addInspiration hands to setContent
NewPiece(id, item, tags, addedAt, inspirationType) ==
    [ content |-> item.content, id |-> id, title |-> item.title,
      tags |-> tags, addedAt |-> addedAt,
      inspirationType |-> inspirationType, source |-> item.link ]

\* one round of the for-loop: generateId, new Date, await setContent
StoreItem(c, item, tags, tick, inspirationType) ==
    Then(NewId(c), LAMBDA c1 :
    Then(ReadClock(c1, tick), LAMBDA c2 :
        SetContent(c2, NewPiece(c1.val, item, tags, c2.val, inspirationType))))

\* the loop leaving after its first round
StoreFirstFeedItem(c, items, tags, ticks, i) ==
    IF Stopped(c) \/ i > Len(items) THEN c
    ELSE StoreItem(c, items[i], tags, ticks[i], "feed")

\* The for-loop of addInspiration over the feed items, from item i on
RECURSIVE StoreFeedItems(_, _, _, _, _)
StoreFeedItems(c, items, tags, ticks, i) ==
    IF Stopped(c) \/ i > Len(items) THEN c
    ELSE Then(StoreItem(c, items[i], tags, ticks[i], "feed"), LAMBDA c1 :
            StoreFeedItems(c1, items, tags, ticks, i + 1))

\* the catch clause putting the store back as the invocation found it
AddInspirationErrorRollback(c) ==
    Returned([c EXCEPT !.content = c.found.content, !.contentIndex = c.found.contentIndex],
             Template([template |-> "error", type |-> "single", contentCount |-> 0]))

\* the catch clause of addInspiration
AddInspirationError(c) ==
    Returned(c, Template([template |-> "error", type |-> "single", contentCount |-> 0]))

\* the end of the try block: suspended inside it, or thrown out of it into the catch
\* clause, or returning from it
AddInspirationEnd(c, type, contentCount) ==
    IF c.suspended THEN Suspended(c)
    ELSE IF c.threw THEN AddInspirationError(c)
    ELSE Returned(c, Template([template |-> "success", type |-> type,
                               contentCount |-> contentCount]))

\* e.detect: what detectUrlType answers; e.fetchThrows: the fetch of the page, or the
\* second parse of the feed, throws; e.textThrows: reading the body of the response
\* throws; e.feed, e.page: what they return; e.ticks: the clock's advance before each
\* Date read
AddInspiration(c, input, e) ==
    LET url  == input.url
        tags == IF Has(input, "tags") THEN input.tags ELSE <<>>
    IN  Then(DetectUrlType(c, e), LAMBDA c1 :
            IF Stopped(c1) THEN AddInspirationEnd(c1, "none", 0)
            ELSE IF c1.val = "feed"
            THEN Then(FetchFeedContent(c1, url, e), LAMBDA c2 :
                 Then(StoreFeedItems(c2, c2.val, tags, e.ticks, 1), LAMBDA c3 :
                    AddInspirationEnd(c3, "feed", Len(c2.val))))
            ELSE Then(FetchSingleContent(c1, e), LAMBDA c2 :
                 Then(StoreItem(c2, [ content |-> c2.val.content, title |-> c2.val.title,
                                      link |-> url ],
                                tags, e.ticks[1], "single"), LAMBDA c3 :
                    AddInspirationEnd(c3, "single", 1))))

\* filterTags.every(..) in place of filterTags.some(..)
SharesEveryTag(filterTags, item) ==
    \A i \in 1..Len(filterTags) : Includes(item.tags, filterTags[i])

\* filterTags.some((tag) => item.tags.includes(tag))
SharesTag(filterTags, item) ==
    \E i \in 1..Len(filterTags) : Includes(item.tags, filterTags[i])

ContentSummary(p) ==
    [ id |-> p.id, title |-> p.title, tags |-> p.tags, addedAt |-> p.addedAt,
      source |-> p.source ]

\* the empty check left out
NeverEmptyIndex(index) == FALSE

\* index.length === 0, and the result listContent and listArticles return then
IsEmptyIndex(index) == Len(index) = 0

EmptyListing == Template([template |-> "empty", totalCount |-> 0, returnedCount |-> 0])

\* (input.limit as number) || 20 and (input.offset as number) || 0: a missing field
\* and the number 0 are both falsy
LimitOf(input) == IF Has(input, "limit") /\ input.limit # 0 THEN input.limit ELSE DefaultLimit

OffsetOf(input) == IF Has(input, "offset") /\ input.offset # 0 THEN input.offset ELSE 0

\* for (const id of ids) { const content = await getContent(storage, id);
\* if (content) list.push(..) }, from the i-th id on: answers the list, of what the
\* lookups answered
RECURSIVE GatherContent(_, _, _, _)
GatherContent(c, ids, i, list) ==
    IF Stopped(c) THEN c
    ELSE IF i > Len(ids) THEN [c EXCEPT !.val = list]
    ELSE Then(GetContent(c, ids[i]), LAMBDA c1 :
            IF Stopped(c1) THEN c1
            ELSE GatherContent(c1, ids, i + 1,
                               IF ContentFound(c1.val) THEN Append(list, c1.val) ELSE list))

\* the same loop over getArticle: the list is of the objects the store handed out
RECURSIVE GatherArticles(_, _, _, _)
GatherArticles(c, ids, i, list) ==
    IF Stopped(c) THEN c
    ELSE IF i > Len(ids) THEN [c EXCEPT !.val = list]
    ELSE Then(GetArticle(c, ids[i]), LAMBDA c1 :
            IF Stopped(c1) THEN c1
            ELSE GatherArticles(c1, ids, i + 1,
                                IF ArticleFound(c1.val) THEN list \o c1.val ELSE list))

\* sorted.slice(offset, offset + limit)
Paginated(sorted, input) == Slice(sorted, OffsetOf(input), OffsetOf(input) + LimitOf(input))

\* the result of a listing: the page mapped to summaries, and the two counts
Listing(paginated, Summary(_), totalCount) ==
    Template([ items |-> [ i \in 1..Len(paginated) |-> Summary(paginated[i]) ],
               template |-> "success", totalCount |-> totalCount,
               returnedCount |-> Len(paginated) ])

\* allContent filtered by the tags asked for, and sorted
SortedContent(allContent, input) ==
    SortDescBy(IF Has(input, "tags") /\ Len(input.tags) > 0
               THEN SelectSeq(allContent, LAMBDA p : SharesTag(input.tags, p))
               ELSE allContent,
               "addedAt")

\* the pieces of what the lookups answered
Pieces(gathered) == [ i \in 1..Len(gathered) |-> gathered[i][1] ]

\* listContent once the pieces are gathered: filter, sort, slice, map
ContentListing(sorted, input) ==
    Listing(Paginated(sorted, input), ContentSummary, Len(sorted))

\* listContent writing back the index without the ids it could not resolve
ListContentPruning(c, input) ==
    Then(GetContentIndex(c), LAMBDA c1 :
        IF Stopped(c1) THEN Unreturned(c1)
        ELSE IF IsEmptyIndex(c1.val) THEN Returned(c1, EmptyListing)
        ELSE Then(GatherContent(c1, c1.val, 1, <<>>), LAMBDA c2 :
             Then(SetContentIndex(c2, [ i \in 1..Len(c2.val) |-> c2.val[i][1].id ]),
                  LAMBDA c3 :
                IF Stopped(c3) THEN Unreturned(c3)
                ELSE Returned(c3, ContentListing(SortedContent(Pieces(c2.val), input),
                                                 input)))))

\* listContent counting the index entries, resolvable or not
ListContentCountingIndex(c, input) ==
    Then(GetContentIndex(c), LAMBDA c1 :
        IF Stopped(c1) THEN Unreturned(c1)
        ELSE IF IsEmptyIndex(c1.val) THEN Returned(c1, EmptyListing)
        ELSE Then(GatherContent(c1, c1.val, 1, <<>>), LAMBDA c2 :
                IF Stopped(c2) THEN Unreturned(c2)
                ELSE Returned(c2, Listing(Paginated(SortedContent(Pieces(c2.val), input),
                                                    input),
                                          ContentSummary, Len(c1.val)))))

ListContent(c, input) ==
    Then(GetContentIndex(c), LAMBDA c1 :
        IF Stopped(c1) THEN Unreturned(c1)
        ELSE IF IsEmptyIndex(c1.val) THEN Returned(c1, EmptyListing)
        ELSE Then(GatherContent(c1, c1.val, 1, <<>>), LAMBDA c2 :
                IF Stopped(c2) THEN Unreturned(c2)
                ELSE Returned(c2, ContentListing(SortedContent(Pieces(c2.val), input),
                                                 input))))

\* the userContent of getContent for a piece
ContentView(p) ==
    [ content |-> [ title |-> p.title,
                    tags |-> IF p.tags = <<>> \/ p.tags = <<"">> THEN "none" ELSE p.tags,
                    source |-> p.source,
                    added |-> p.addedAt, body |-> p.content ],
      contentType |-> "content",
      metadata |-> [ title |-> p.title, tags |-> p.tags,
                     addedAt |-> p.addedAt, source |-> p.source ] ]

\* getContentAction without the test for a missing record: reading a field of null
\* throws a TypeError
GetContentActionNoNullTest(c, input) ==
    Then(GetContent(c, input.contentId), LAMBDA c1 :
        IF Stopped(c1) THEN Unreturned(c1)
        ELSE IF ~ContentFound(c1.val)
        THEN Raised(Throw(c1, "type", "Cannot read properties of null"))
        ELSE Returned(c1, Passthrough(ContentView(c1.val[1]))))

GetContentAction(c, input) ==
    Then(GetContent(c, input.contentId), LAMBDA c1 :
        IF Stopped(c1) THEN Unreturned(c1)
        ELSE IF ~ContentFound(c1.val)
        THEN Returned(c1, Passthrough([content |-> "Content not found",
                                       contentType |-> "error"]))
        ELSE Returned(c1, Passthrough(ContentView(c1.val[1]))))

DeleteContent(c, input) ==
    Then(DeleteContentById(c, input.contentId), LAMBDA c1 :
        IF Stopped(c1) THEN Unreturned(c1)
        ELSE IF ~c1.val THEN Returned(c1, Template([template |-> "notFound"]))
        ELSE Returned(c1, Template([template |-> "success"])))

-----------------------------------------------------------------------------
(* The generative model *)

\* A text is a sequence of tokens: the character '#', a whitespace character, or a
\* word (a run of other characters).  A character that has no escape in a string
\* here is the token that names its code point.  A title is a string.

\* the regex class \s: the white space and the line terminators of ECMAScript
Whitespace ==
    { " ", "\t", "\n", "\r", "\f", "U+000B", "U+00A0", "U+1680",
      "U+2000", "U+2001", "U+2002", "U+2003", "U+2004", "U+2005", "U+2006", "U+2007",
      "U+2008", "U+2009", "U+200A", "U+2028", "U+2029", "U+202F", "U+205F", "U+3000",
      "U+FEFF" }

\* the line terminators: what . does not match, and where ^ and $ anchor under /m
LineBreaks == { "\n", "\r", "U+2028", "U+2029" }

TextEmpty == <<>>

TextWithH1 == << "intro", "\r", "#", "\t", "Generated" >>

TextPlain == << "#", "#", " ", "Section", "\n", "body" >>

\* What openai.chat.completions.create answers: it throws, or it returns a completion
\* whose choices[0]?.message?.content is missing or a text, the empty one included
Completions ==
    { Empty, Field("content", TextEmpty), Field("content", TextWithH1),
      Field("content", TextPlain) }

\* the fallback taken only when the content is missing
CompletionContentUnlessMissing(completion, fallback) ==
    IF Has(completion, "content") THEN completion.content ELSE fallback

\* completion.choices[0]?.message?.content || fallback: a text is falsy exactly
\* when it is the empty string
CompletionContent(completion, fallback) ==
    IF Has(completion, "content") /\ completion.content # TextEmpty
    THEN completion.content ELSE fallback

\* the string the tokens spell
RECURSIVE Spelled(_)
Spelled(tokens) == IF tokens = <<>> THEN "" ELSE Head(tokens) \o Spelled(Tail(tokens))

\* generatedContent.match(/^#\s+(.+)$/m): group 1 of the match at each position the
\* regex matches at, in order (match takes the first).  ^ is the start of the text
\* or the position after a line break.  After the '#', \s+ takes the whole run of
\* whitespace that follows, line breaks included, and gives back from its end until
\* (.+)$ can match: . is any character but a line break, so group 1 starts at a
\* character that is no line break and runs to the end of its line.
H1Lines(text) ==
    LET len == Len(text)
        lineStart(i) == i = 1 \/ text[i - 1] \in LineBreaks
        \* the length of the whitespace run from position j on
        run(i) == LET stops == { j \in (i + 1)..(len + 1) :
                                    j = len + 1 \/ text[j] \notin Whitespace }
                  IN  (CHOOSE j \in stops : \A k \in stops : j <= k) - (i + 1)
        \* the lengths \s+ may keep: group 1 has a first character
        keeps(i) == { n \in 1..run(i) : i + n + 1 <= len /\ text[i + n + 1] \notin LineBreaks }
        matches(i) == text[i] = "#" /\ lineStart(i) /\ keeps(i) # {}
        from(i) == i + 1 + (CHOOSE n \in keeps(i) : \A m \in keeps(i) : m <= n)
        lineEnd(j) == LET ends == { k \in j..len : k = len \/ text[k + 1] \in LineBreaks }
                      IN  CHOOSE k \in ends : \A m \in ends : k <= m
        group(i) == Spelled(SubSeq(text, from(i), lineEnd(from(i))))
        at == SelectSeq([ i \in 1..len |-> i ], matches)
    IN  [ k \in 1..Len(at) |-> group(at[k]) ]

\* title || generatedContent.match(..)?.[1] || 'Untitled Article'
ArticleTitle(input, generatedContent) ==
    IF Has(input, "title") /\ input.title # "" THEN input.title
    ELSE IF Len(H1Lines(generatedContent)) > 0 THEN H1Lines(generatedContent)[1]
    ELSE "Untitled Article"

\* the key looked up, the test for it left out
GetOpenAIUnchecked(c, e) ==
    LET apiKey == e.hasKey
    IN  c

\* getOpenAI throws when neither the config nor the process environment has the key
GetOpenAI(c, e) ==
    IF Stopped(c) \/ e.hasKey THEN c
    ELSE Throw(c, "credential", "OPENAI_API_KEY not configured")

\* await openai.chat.completions.create(..)
CallModel(c, e) == Await(c, "create", "", 0, e.modelThrows, [c EXCEPT !.val = e.completion])

-----------------------------------------------------------------------------
(* Action handlers: articles *)

\* sourceContentIds holding only the ids that resolved
ResolvedSources(contentIds, sourceContent) ==
    [ i \in 1..Len(sourceContent) |-> sourceContent[i][1].id ]

\* sourceContentIds: contentIds
SourcesOf(contentIds, sourceContent) == contentIds

\* the article createArticle hands to setArticle
NewArticle(input, articleId, articleTitle, generatedContent, sources, createdAt, updatedAt) ==
    [ content |-> generatedContent, id |-> articleId,
      sourceContentIds |-> sources,
      title |-> articleTitle,
      createdAt |-> createdAt, updatedAt |-> updatedAt,
      instructions |-> input.instructions, version |-> 1 ]

\* the userContent of createArticle and updateArticle
ArticleView(articleTitle, body, metadata) ==
    [ content |-> [title |-> articleTitle, body |-> body],
      contentType |-> "article",
      metadata |-> metadata ]

\* createArticle from the model's answer on: the title, generateId, the two Date
\* reads, await setArticle, return
StoreNewArticle(c, input, ticks, sourceContent, generatedContent, articleTitle) ==
    Then(NewId(c), LAMBDA c1 :
    Then(ReadClock(c1, ticks[1]), LAMBDA c2 :
    Then(ReadClock(c2, ticks[2]), LAMBDA c3 :
    Then(SetArticle(c3, NewArticle(input, c1.val, articleTitle, generatedContent,
                                   SourcesOf(input.contentIds, sourceContent),
                                   c2.val, c3.val)), LAMBDA c4 :
        IF Stopped(c4) THEN Unreturned(c4)
        ELSE Returned(c4, Passthrough(
                ArticleView(articleTitle, generatedContent,
                            [title |-> articleTitle, articleId |-> c1.val])))))))

\* createArticle
CreateArticle(c, input, e) ==
    Then(GatherContent(c, input.contentIds, 1, <<>>), LAMBDA c1 :
        IF Stopped(c1) THEN Unreturned(c1)
        ELSE IF Len(c1.val) = 0
        THEN Returned(c1, Passthrough([content |-> "No valid content pieces found",
                                       contentType |-> "error"]))
        ELSE Then(CallModel(GetOpenAI(c1, e), e), LAMBDA c2 :
                IF Stopped(c2) THEN Unreturned(c2)
                ELSE StoreNewArticle(c2, input, e.ticks, c1.val,
                                     CompletionContent(c2.val, TextEmpty),
                                     ArticleTitle(input, CompletionContent(c2.val, TextEmpty)))))

ArticleSummary(a) ==
    [ id |-> a.id, title |-> a.title, createdAt |-> a.createdAt,
      updatedAt |-> a.updatedAt, version |-> a.version ]

\* the sort and the map read the fields of the objects gathered, as they are when
\* the last lookup has answered
ListArticles(c, input) ==
    Then(GetArticleIndex(c), LAMBDA c1 :
        IF Stopped(c1) THEN Unreturned(c1)
        ELSE IF IsEmptyIndex(c1.val) THEN Returned(c1, EmptyListing)
        ELSE Then(GatherArticles(c1, c1.val, 1, <<>>), LAMBDA c2 :
                IF Stopped(c2) THEN Unreturned(c2)
                ELSE Then(SortDescBy([ i \in 1..Len(c2.val) |-> c2.article[c2.val[i]] ],
                                     "updatedAt"), LAMBDA sorted :
                        Returned(c2, Listing(Paginated(sorted, input), ArticleSummary,
                                             Len(sorted))))))

\* the version assigned anew instead of incremented
SameVersion(v) == v

\* article.version += 1
NextVersion(v) == v + 1

\* the assignments of updateArticle to the article it was handed
Revised(old, updatedContent, additionalContentIds, updatedAt) ==
    [ old EXCEPT
        !.content = updatedContent,
        !.version = NextVersion(@),
        !.updatedAt = updatedAt,
        !.sourceContentIds =
            IF Len(additionalContentIds) > 0
            THEN Dedup(@ \o additionalContentIds) ELSE @ ]

\* updateArticle from the model's answer on.  The article is the object the store
\* handed out: its fields are read as they are now and assigned in the store, before
\* setArticle is called; what is returned reads the object once more
StoreRevision(c, articleId, additionalContentIds, completion, tick) ==
    Then(ArticleFields(c, articleId), LAMBDA c1 :
    Then(ReadClock(c1, tick), LAMBDA c2 :
    Then(Revised(c1.val, CompletionContent(completion, c1.val.content),
                 additionalContentIds, c2.val), LAMBDA revised :
    Then(SetArticle(AssignArticle(c2, revised), revised), LAMBDA c3 :
        IF Stopped(c3) THEN Unreturned(c3)
        ELSE Returned(c3, Passthrough(
                ArticleView(c3.article[articleId].title, revised.content,
                            [ title |-> c3.article[articleId].title,
                              articleId |-> c3.article[articleId].id,
                              version |-> c3.article[articleId].version ])))))))

UpdateArticle(c, input, e) ==
    LET additionalContentIds ==
            IF Has(input, "additionalContentIds") THEN input.additionalContentIds ELSE <<>>
    IN  Then(GetArticle(c, input.articleId), LAMBDA c1 :
            IF Stopped(c1) THEN Unreturned(c1)
            ELSE IF ~ArticleFound(c1.val)
            THEN Returned(c1, Passthrough([content |-> "Article not found",
                                           contentType |-> "error"]))
            ELSE Then(GatherContent(c1, additionalContentIds, 1, <<>>), LAMBDA c2 :
                 Then(CallModel(GetOpenAI(c2, e), e), LAMBDA c3 :
                    IF Stopped(c3) THEN Unreturned(c3)
                    ELSE StoreRevision(c3, input.articleId, additionalContentIds,
                                       c3.val, e.ticks[1]))))

-----------------------------------------------------------------------------
(* ContentHoarderTrik.invoke *)

ActionNames ==
    { "addInspiration", "listContent", "getContent", "createArticle",
      "listArticles", "updateArticle", "deleteContent" }

ErrorEnvelope(message) == Template([template |-> "error", message |-> message])

\* the switch on the action name
Dispatch(c, action, input, e) ==
    CASE action = "addInspiration" -> AddInspiration(c, input, e)
      [] action = "listContent"    -> ListContent(c, input)
      [] action = "getContent"     -> GetContentAction(c, input)
      [] action = "createArticle"  -> CreateArticle(c, input, e)
      [] action = "listArticles"   -> ListArticles(c, input)
      [] action = "updateArticle"  -> UpdateArticle(c, input, e)
      [] action = "deleteContent"  -> DeleteContent(c, input)
      [] OTHER -> Returned(c, ErrorEnvelope(<<"Unknown action: ", action>>))

\* the switch without the catch clause
NoCatch(h) == h

\* the catch clause around the switch:
\* message: error instanceof Error ? error.message : 'Unknown error'
Catch(h) ==
    IF h.raised
    THEN Returned(h.ctx, ErrorEnvelope(IF h.ctx.isError THEN h.ctx.msg ELSE "Unknown error"))
    ELSE h

Invoke(c, action, input, storagePresent, e) ==
    IF ~storagePresent THEN Returned(c, ErrorEnvelope("Storage not provided"))
    ELSE Catch(Dispatch(c, action, input, e))

-----------------------------------------------------------------------------
(* Inputs of the invocations, and what the world answers, per specification *)

Optional(name, values) == { Empty } \cup { Field(name, v) : v \in values }

AddInspirationInputs(tagLists) ==
    { Merge(Field("url", u), t) : u \in Urls, t \in Optional("tags", tagLists) }

ListInputs(tagLists, limits, offsets) ==
    { Merge(t, Merge(l, o)) : t \in Optional("tags", tagLists),
                              l \in Optional("limit", limits),
                              o \in Optional("offset", offsets) }

ContentIdInputs(ids) == { Field("contentId", i) : i \in ids }

CreateArticleInputs(idLists, titles) ==
    { Merge([contentIds |-> ids, instructions |-> "draft"], t) :
        ids \in idLists, t \in Optional("title", titles) }

UpdateArticleInputs(ids, idLists) ==
    { Merge([articleId |-> a, instructions |-> "revise"], more) :
        a \in ids, more \in Optional("additionalContentIds", idLists) }

\* the clock's advance before each of the first n Date reads of an invocation
MaxTicks == IF MaxFeedItems > 2 THEN MaxFeedItems ELSE 2

Ticks(p, n) == { t \in [1..MaxTicks -> p.advances] : \A i \in 1..MaxTicks : i > n => t[i] = 0 }

NoTicks == [ i \in 1..MaxTicks |-> 0 ]

ModelEnv(hasKey, modelThrows, completion, ticks) ==
    [ ticks |-> ticks, completion |-> completion, hasKey |-> hasKey,
      modelThrows |-> modelThrows ]

\* the environments of a model-calling invocation that reads the clock n times:
\* the model answers, or the credential is missing, or the model call throws
ModelEnvs(p, n) ==
    { ModelEnv(TRUE, FALSE, cp, t) : cp \in p.completions, t \in Ticks(p, n) }
      \cup { ModelEnv(FALSE, FALSE, Empty, NoTicks), ModelEnv(TRUE, TRUE, Empty, NoTicks) }

\* The host serializes the invocations: one is in flight at a time
Serialized == 1

\* All seven actions, few inputs each
Lean ==
    [ contentIds    |-> 1..MaxIds,
      advances      |-> 0..1,
      completions   |-> { Empty, Field("content", TextWithH1) },
      rejections    |-> { "Error" },
      idCap         |-> MaxIds,
      inFlight      |-> Serialized,
      addInputs     |-> AddInspirationInputs({ <<"a">> }),
      feeds         |-> RawFeeds,
      listInputs    |-> ListInputs({ <<"a">> }, { 1 }, {}),
      artListInputs |-> ListInputs({}, { 1 }, {}),
      createInputs  |-> CreateArticleInputs({ <<1>>, <<2>>, <<1, 2>> }, {}),
      updateInputs  |-> UpdateArticleInputs(1..MaxIds, { <<1>> }) ]

\* Collecting and listing content
Collecting ==
    [ contentIds    |-> 1..MaxPieces,
      advances      |-> 0..1,
      rejections    |-> { "Error" },
      idCap         |-> MaxPieces,
      inFlight      |-> Serialized,
      addInputs     |-> AddInspirationInputs({ <<"a">> }),
      feeds         |-> RawFeeds,
      listInputs    |-> ListInputs({ <<"b", "a">> }, { 0, 1 }, { 1 }) ]

\* Writing and revising articles
Writing ==
    [ contentIds    |-> { 1 },
      advances      |-> 0..1,
      completions   |-> Completions,
      rejections    |-> { "Error" },
      idCap         |-> MaxIds,
      inFlight      |-> Serialized,
      addInputs     |-> AddInspirationInputs({}),
      feeds         |-> { <<>> },
      artListInputs |-> ListInputs({}, { 0, 1 }, { 1 }),
      createInputs  |-> CreateArticleInputs({ <<2>>, <<1, 1>>, <<1, 2>> }, { "My Title" }),
      updateInputs  |-> UpdateArticleInputs(1..MaxIds, { <<>>, <<1, 2>> }) ]

\* All seven actions against a store that may fail: one input each
Frail ==
    [ contentIds    |-> 1..MaxIds,
      advances      |-> { 0 },
      completions   |-> { Field("content", TextWithH1) },
      rejections    |-> { "Error", "value" },
      idCap         |-> MaxIds,
      inFlight      |-> Serialized,
      addInputs     |-> AddInspirationInputs({}),
      feeds         |-> { f \in RawFeeds : Len(f) = MaxFeedItems },
      listInputs    |-> ListInputs({}, {}, {}),
      artListInputs |-> ListInputs({}, {}, {}),
      createInputs  |-> CreateArticleInputs({ <<1>> }, {}),
      updateInputs  |-> UpdateArticleInputs({ 2 }, {}) ]

\* Revising one of several articles
Revising ==
    [ contentIds    |-> { 1 },
      advances      |-> 0..1,
      completions   |-> { Field("content", TextWithH1) },
      rejections    |-> { "Error" },
      idCap         |-> MaxPieces,
      inFlight      |-> Serialized,
      addInputs     |-> AddInspirationInputs({}),
      feeds         |-> { <<>> },
      createInputs  |-> CreateArticleInputs({ <<1>> }, {}),
      updateInputs  |-> UpdateArticleInputs(1..MaxPieces, { <<>>, <<1, 2>> }) ]

\* Invocations the host does not serialize: adding, listing, reading and deleting
\* content
Racing ==
    [ contentIds    |-> 1..MaxIds,
      advances      |-> { 0 },
      rejections    |-> { "Error" },
      idCap         |-> MaxPieces,
      inFlight      |-> MaxInFlight,
      addInputs     |-> AddInspirationInputs({}),
      feeds         |-> { f \in RawFeeds : Len(f) = MaxFeedItems },
      listInputs    |-> ListInputs({}, {}, {}) ]

\* the storage fault of an invocation: 0 for none, k for the k-th storage call throwing
Reliable == { 0 }

Unreliable == 0..MaxFailAt

-----------------------------------------------------------------------------
(* The state machine *)

\* the records and the indexes, as they are now
Store ==
    [ content |-> content, contentIndex |-> contentIndex,
      article |-> article, articleIndex |-> articleIndex ]

NoCall ==
    [ log |-> <<>>, fault |-> "none", input |-> Empty, action |-> "none",
      storage |-> TRUE, env |-> Empty ]

Init ==
    /\ content = Empty
    /\ contentIndex = <<>>
    /\ article = Empty
    /\ articleIndex = <<>>
    /\ now = 0
    /\ nextId = 0
    /\ inflight = <<>>
    /\ call = NoCall
    /\ result = [responseMode |-> "none"]
    /\ before = Store

\* One step of the invocation t, the k-th in flight (k = 0: invoke is being called):
\* from the call of invoke, or from the await t is suspended at, to its next
\* awaited call or to its return
Step(t, k) ==
    \E found \in { IF k = 0 THEN Store ELSE before } :
    \E h \in { Invoke(NewCtx(t, found), t.action, t.input, t.storage, t.env) } :
        /\ content' = h.ctx.content
        /\ contentIndex' = h.ctx.contentIndex
        /\ article' = h.ctx.article
        /\ articleIndex' = h.ctx.articleIndex
        /\ now' = h.ctx.now
        /\ nextId' = h.ctx.nextId
        /\ inflight' = IF h.ctx.suspended
                       THEN IF k = 0 THEN Append(inflight, [t EXCEPT !.log = h.ctx.log])
                            ELSE [inflight EXCEPT ![k].log = h.ctx.log]
                       ELSE SubSeq(inflight, 1, k - 1) \o SubSeq(inflight, k + 1, Len(inflight))
        /\ call' = [ log |-> h.ctx.log, fault |-> h.ctx.fault, input |-> t.input,
                     action |-> t.action, storage |-> t.storage, env |-> t.env ]
        /\ result' = h.result
        /\ before' = found

\* the ids the invocation will ask generateId for, if nothing fails
IdsAsked(action, input, e) ==
    CASE action = "addInspiration" /\ Has(e, "detect") ->
            IF e.fetchThrows \/ e.textThrows THEN 0
            ELSE IF e.detect = "feed" THEN Len(e.feed) ELSE 1
      [] action = "createArticle" /\ Has(e, "hasKey") ->
            IF e.hasKey /\ ~e.modelThrows
               /\ \E i \in 1..Len(input.contentIds) : input.contentIds[i] \in DOMAIN content
            THEN 1 ELSE 0
      [] OTHER -> 0

RECURSIVE Sum(_)
Sum(s) == IF s = <<>> THEN 0 ELSE Head(s) + Sum(Tail(s))

\* the ids an invocation has drawn, by its journal
DrawnIds(log) == { log[i].val : i \in { j \in 1..Len(log) : log[j].op = "id" } }

\* the ids the invocations in flight have yet to draw
IdsAwaited ==
    Sum([ k \in 1..Len(inflight) |->
            IdsAsked(inflight[k].action, inflight[k].input, inflight[k].env)
                - Cardinality(DrawnIds(inflight[k].log)) ])

\* A call of invoke, and the first step of the invocation.  The host lets it in
\* while fewer than p.inFlight invocations are in flight, and while the ids and the
\* clock suffice for it and for those in flight.  What a rejection carries is drawn
\* when a storage call or the model call may reject and invoke's catch clause would
\* see it (addInspiration's own catch clause never looks at the error).
Do(action, input, storagePresent, e, failAt, p) ==
    /\ Len(inflight) < p.inFlight
    /\ nextId + IdsAwaited + IdsAsked(action, input, e) <= p.idCap
    /\ Has(e, "ticks") => now + Sum(e.ticks) <= MaxClock
    /\ \E rejection \in IF (failAt # 0 /\ action # "addInspiration")
                            \/ (Has(e, "modelThrows") /\ e.modelThrows)
                        THEN p.rejections ELSE { "Error" } :
          Step([ failAt |-> failAt, rejection |-> rejection, log |-> <<>>, input |-> input,
                 action |-> action, storage |-> storagePresent, env |-> e ], 0)

\* An invocation in flight is resumed: from the await it is suspended at to its
\* next awaited call, or to its return
Resume == \E k \in 1..Len(inflight) : Step(inflight[k], k)

AddEnv(detect, fetchThrows, textThrows, feed, page, ticks) ==
    [ detect |-> detect, fetchThrows |-> fetchThrows, feed |-> feed,
      textThrows |-> textThrows, page |-> page, ticks |-> ticks ]

AddInspirationWith(p, failAts) ==
    \E input \in p.addInputs, page \in Pages :
        \/ \E failAt \in failAts, t \in Ticks(p, 1) :
              Do("addInspiration", input, TRUE,
                 AddEnv("single", FALSE, FALSE, <<>>, page, t), failAt, p)
        \/ \E failAt \in failAts, feed \in p.feeds : \E t \in Ticks(p, Len(feed)) :
              Do("addInspiration", input, TRUE,
                 AddEnv("feed", FALSE, FALSE, feed, page, t), failAt, p)
        \/ \E detect \in {"single", "feed"} :
              Do("addInspiration", input, TRUE,
                 AddEnv(detect, TRUE, FALSE, <<>>, page, NoTicks), 0, p)
        \/ Do("addInspiration", input, TRUE,
              AddEnv("single", FALSE, TRUE, <<>>, page, NoTicks), 0, p)

ListContentWith(p, failAts) ==
    \E input \in p.listInputs, failAt \in failAts :
        Do("listContent", input, TRUE, Empty, failAt, p)

GetContentWith(p, failAts) ==
    \E input \in ContentIdInputs(p.contentIds), failAt \in failAts :
        Do("getContent", input, TRUE, Empty, failAt, p)

DeleteContentWith(p, failAts) ==
    \E input \in ContentIdInputs(p.contentIds), failAt \in failAts :
        Do("deleteContent", input, TRUE, Empty, failAt, p)

ListArticlesWith(p, failAts) ==
    \E input \in p.artListInputs, failAt \in failAts :
        Do("listArticles", input, TRUE, Empty, failAt, p)

\* the environments of an invocation that returns before it asks for the model:
\* the key may be missing and the model may be out of reach, neither is looked at
Unasked ==
    { ModelEnv(hasKey, modelThrows, Empty, NoTicks) : hasKey \in BOOLEAN, modelThrows \in BOOLEAN }

CreateArticleWith(p, failAts) ==
    \E input \in p.createInputs, failAt \in failAts :
        \E e \in IF \E i \in 1..Len(input.contentIds) : input.contentIds[i] \in DOMAIN content
                 THEN ModelEnvs(p, 2) ELSE Unasked :
            Do("createArticle", input, TRUE, e, failAt, p)

UpdateArticleWith(p, failAts) ==
    \E input \in p.updateInputs, failAt \in failAts :
        \E e \in IF input.articleId \in DOMAIN article
                 THEN ModelEnvs(p, 1) ELSE Unasked :
            /\ input.articleId \in DOMAIN article =>
                  article[input.articleId].version < MaxVersion
            /\ Do("updateArticle", input, TRUE, e, failAt, p)

\* invoke called with an action name that is none of the seven
UnknownAction == Do("bogus", Empty, TRUE, Empty, 0, Lean)

\* invoke called without a storage handle
NoStorage ==
    \E action \in ActionNames \cup { "bogus" } : Do(action, Empty, FALSE, Empty, 0, Lean)

(* Serialized invocations of all seven actions against a store whose calls all succeed *)

AddInspirationStep == AddInspirationWith(Lean, Reliable)
ListContentStep    == ListContentWith(Lean, Reliable)
GetContentStep     == GetContentWith(Lean, Reliable)
CreateArticleStep  == CreateArticleWith(Lean, Reliable)
ListArticlesStep   == ListArticlesWith(Lean, Reliable)
UpdateArticleStep  == UpdateArticleWith(Lean, Reliable)
DeleteContentStep  == DeleteContentWith(Lean, Reliable)

Next ==
    \/ AddInspirationStep
    \/ ListContentStep
    \/ GetContentStep
    \/ CreateArticleStep
    \/ ListArticlesStep
    \/ UpdateArticleStep
    \/ DeleteContentStep
    \/ UnknownAction
    \/ NoStorage
    \/ Resume

Spec == Init /\ [][Next]_vars

(* The same against a store of which one call per invocation may throw *)

AddInspirationFault == AddInspirationWith(Frail, Unreliable)
ListContentFault    == ListContentWith(Frail, Unreliable)
GetContentFault     == GetContentWith(Frail, Unreliable)
CreateArticleFault  == CreateArticleWith(Frail, Unreliable)
ListArticlesFault   == ListArticlesWith(Frail, Unreliable)
UpdateArticleFault  == UpdateArticleWith(Frail, Unreliable)
DeleteContentFault  == DeleteContentWith(Frail, Unreliable)

NextFault ==
    \/ AddInspirationFault
    \/ ListContentFault
    \/ GetContentFault
    \/ CreateArticleFault
    \/ ListArticlesFault
    \/ UpdateArticleFault
    \/ DeleteContentFault
    \/ UnknownAction
    \/ NoStorage
    \/ Resume

SpecFault == Init /\ [][NextFault]_vars

(* Collecting, listing and deleting content *)

CollectAdd    == AddInspirationWith(Collecting, Reliable)
CollectList   == ListContentWith(Collecting, Reliable)
CollectGet    == GetContentWith(Collecting, Reliable)
CollectDelete == DeleteContentWith(Collecting, Reliable)

NextCollect == CollectAdd \/ CollectList \/ CollectGet \/ CollectDelete \/ Resume

SpecCollect == Init /\ [][NextCollect]_vars

(* Writing, revising and listing articles over collected content *)

WriteAdd    == AddInspirationWith(Writing, Reliable)
WriteDelete == DeleteContentWith(Writing, Reliable)
WriteCreate == CreateArticleWith(Writing, Reliable)
WriteUpdate == UpdateArticleWith(Writing, Reliable)
WriteList   == ListArticlesWith(Writing, Reliable)

NextWrite == WriteAdd \/ WriteDelete \/ WriteCreate \/ WriteUpdate \/ WriteList \/ Resume

SpecWrite == Init /\ [][NextWrite]_vars

(* Revising articles where several are stored *)

ReviseAdd    == AddInspirationWith(Revising, Reliable)
ReviseCreate == CreateArticleWith(Revising, Reliable)
ReviseUpdate == UpdateArticleWith(Revising, Reliable)

NextRevise == ReviseAdd \/ ReviseCreate \/ ReviseUpdate \/ Resume

SpecRevise == Init /\ [][NextRevise]_vars

(* Invocations that the host does not serialize: the handlers await every     *)
(* call of the store, of the network and of the model and take no lock, so   *)
(* the steps of the invocations in flight interleave.                       *)

RaceAdd    == AddInspirationWith(Racing, Reliable)
RaceList   == ListContentWith(Racing, Reliable)
RaceGet    == GetContentWith(Racing, Reliable)
RaceDelete == DeleteContentWith(Racing, Reliable)

NextRace == RaceAdd \/ RaceList \/ RaceGet \/ RaceDelete \/ Resume

SpecRace == Init /\ [][NextRace]_vars

(* The two listings as functions of the store the host hands in: the records and *)
(* the indexes are drawn freely, an index may name ids that have no record       *)

InitDrift ==
    /\ \E ids \in SUBSET (1..MaxIds) :
          /\ \E tagged \in SUBSET ids, late \in SUBSET ids :
                content = [ id \in ids |->
                              [ content |-> "page text", id |-> id, title |-> "Example Domain",
                                tags |-> IF id \in tagged THEN <<"a">> ELSE <<>>,
                                addedAt |-> IF id \in late THEN MaxClock ELSE 0,
                                inspirationType |-> "single",
                                source |-> "https://example.com" ] ]
          /\ \E arts \in SUBSET ((1..MaxIds) \ ids) : \E late \in SUBSET arts :
                article = [ id \in arts |->
                              [ content |-> TextPlain, id |-> id, sourceContentIds |-> <<1>>,
                                title |-> "Untitled Article", createdAt |-> 0,
                                updatedAt |-> IF id \in late THEN MaxClock ELSE 0, instructions |-> "draft",
                                version |-> 1 ] ]
    /\ \E n \in 0..MaxIds : \E index \in [1..n -> 1..MaxIds] :
          /\ \A i, j \in 1..n : index[i] = index[j] => i = j
          /\ contentIndex = index
    /\ \E n \in 0..MaxIds : \E index \in [1..n -> 1..MaxIds] :
          /\ \A i, j \in 1..n : index[i] = index[j] => i = j
          /\ articleIndex = index
    /\ now = MaxClock
    /\ nextId = MaxIds
    /\ inflight = <<>>
    /\ call = NoCall
    /\ result = [responseMode |-> "none"]
    /\ before = Store

NextDrift == ListContentStep \/ ListArticlesStep \/ Resume

SpecDrift == InitDrift /\ [][NextDrift]_vars

-----------------------------------------------------------------------------
(* Properties *)

\* what the caller reads off the last result
IsTemplate(t) == result.responseMode = "template" /\ result.agentData.template = t

WillBeTemplate(t) == result'.responseMode = "template" /\ result'.agentData.template = t

ItemIds(r) == { r.agentData.items[i].id : i \in 1..Len(r.agentData.items) }

\* the last step was the return of an invocation of a
Invoked(a) == call.storage /\ call.action = a /\ result.responseMode # "pending"

\* the coming step is the return of an invocation of a
WillInvoke(a) == call'.storage /\ call'.action = a /\ result'.responseMode # "pending"

\* the coming step is a step of an invocation of a: its first, or a later one, or
\* its return
WillStep(a) == call'.storage /\ call'.action = a

\* an invocation has made the call op, by its journal
Asked(log, op) == \E i \in 1..Len(log) : log[i].op = op

\* C1: under serialized invocations against a store whose calls succeed, whenever
\* every invocation has returned each index holds exactly the ids whose record a
\* direct key lookup returns, for the content and for the article collection.
C1_IndexExact ==
    inflight = <<>> =>
        /\ Range(contentIndex) = DOMAIN content
        /\ Range(articleIndex) = DOMAIN article

\* a piece was deleted while an article is stored
C1_Witness ==
    /\ Invoked("deleteContent") /\ IsTemplate("success")
    /\ DOMAIN article # {}
    /\ contentIndex = <<>>

\* C2: deleteContent of a stored id answers 'success' and has removed the record and
\* the index entry; an id once removed is never stored again and listContent lists
\* only stored ids, so every later listContent omits it; deleteContent of an id that
\* is not stored answers 'notFound' and leaves the content index as it was.
C2_Delete ==
    [][ /\ \A id \in 1..MaxPieces :
            /\ (WillInvoke("deleteContent") /\ call'.input.contentId = id) =>
                  IF id \in DOMAIN before'.content
                  THEN /\ WillBeTemplate("success")
                       /\ id \notin DOMAIN content'
                       /\ ~Includes(contentIndex', id)
                  ELSE /\ WillBeTemplate("notFound")
                       /\ contentIndex' = before'.contentIndex
            /\ (id <= nextId /\ id \notin DOMAIN content) => id \notin DOMAIN content'
        /\ (WillInvoke("listContent") /\ WillBeTemplate("success")) =>
              ItemIds(result') \subseteq DOMAIN content'
      ]_vars

\* an id deleted a second time while another piece is still stored
C2_Witness ==
    /\ Invoked("deleteContent") /\ IsTemplate("notFound")
    /\ call.input.contentId <= nextId
    /\ DOMAIN content # {}

\* C3: a successful addInspiration of a single page has stored exactly one new piece
\* and answers type 'single', contentCount 1; of a feed of k items it has stored
\* exactly k new pieces, each with the supplied tags and inspirationType 'feed', and
\* answers contentCount k.
C3_AddCounts ==
    (Invoked("addInspiration") /\ IsTemplate("success")) =>
        LET new == (DOMAIN content) \ (DOMAIN before.content)
            tags == IF Has(call.input, "tags") THEN call.input.tags ELSE <<>>
            data == result.agentData
        IN  /\ DOMAIN before.content \subseteq DOMAIN content
            /\ \A id \in DOMAIN before.content : content[id] = before.content[id]
            /\ Cardinality(new) = data.contentCount
            /\ data.type = call.env.detect
            /\ \A id \in new : /\ content[id].tags = tags
                               /\ content[id].inspirationType = data.type
            /\ call.env.detect = "single" => data.contentCount = 1
            /\ call.env.detect = "feed" => data.contentCount = Len(call.env.feed)

\* a feed of two items was added with tags
C3_Witness ==
    /\ Invoked("addInspiration") /\ IsTemplate("success")
    /\ result.agentData.type = "feed" /\ result.agentData.contentCount = 2
    /\ Has(call.input, "tags")
    /\ Cardinality(DOMAIN content) = 3

\* the pieces that share a tag with the filter of the last listContent (all of them
\* when the filter is missing or empty)
Matching ==
    LET f == IF Has(call.input, "tags") THEN call.input.tags ELSE <<>>
    IN  { id \in DOMAIN content :
            f = <<>> \/ Range(f) \cap Range(content[id].tags) # {} }

\* C4: listContent without a tag filter answers totalCount = the number of stored
\* pieces; with a filter, totalCount is the number of pieces sharing at least one tag
\* with it, whatever offset and limit are, and only such pieces are returned.
C4_FilterCount ==
    Invoked("listContent") =>
        /\ result.agentData.totalCount = Cardinality(Matching)
        /\ ~Has(call.input, "tags") => result.agentData.totalCount = Cardinality(DOMAIN content)
        /\ IsTemplate("success") => ItemIds(result) \subseteq Matching

\* a filter of two tags of which a stored piece carries only the second, and
\* another stored piece carries none
C4_Witness ==
    /\ Invoked("listContent") /\ IsTemplate("success")
    /\ Has(call.input, "tags") /\ Len(call.input.tags) = 2
    /\ result.agentData.totalCount > 0
    /\ result.agentData.totalCount < Cardinality(DOMAIN content)
    /\ \E id \in Matching : ~Includes(content[id].tags, call.input.tags[1])

\* C5: listContent answers template 'empty' with totalCount 0 and returnedCount 0
\* whenever the content index is empty, and listArticles does whenever the article
\* index is empty.
C5_EmptyListing ==
    /\ (Invoked("listContent") /\ contentIndex = <<>>) =>
          result = Template([template |-> "empty", totalCount |-> 0, returnedCount |-> 0])
    /\ (Invoked("listArticles") /\ articleIndex = <<>>) =>
          result = Template([template |-> "empty", totalCount |-> 0, returnedCount |-> 0])

\* listContent after every stored piece was deleted again
C5_Witness ==
    /\ Invoked("listContent") /\ IsTemplate("empty")
    /\ nextId > 0
    /\ DOMAIN content = {}

\* the position of a listed id in an index
Pos(index, id) == CHOOSE i \in 1..Len(index) : index[i] = id

\* how many of the records ids precede id in the listing order: a later timestamp
\* first, the index order among equal timestamps
Rank(ids, recs, field, index, id) ==
    Cardinality({ o \in ids :
        \/ recs[o][field] > recs[id][field]
        \/ recs[o][field] = recs[id][field] /\ Pos(index, o) < Pos(index, id) })

\* the items of the last result are recs' records of ids, in listing order, from
\* the offset-th on and at most limit of them
IsPage(ids, recs, field, index, offset, limit) ==
    LET items == result.agentData.items
    IN  /\ \A i, j \in 1..Len(items) : i < j => items[i][field] >= items[j][field]
        /\ result.agentData.returnedCount = Len(items)
        /\ Len(items) <= limit
        /\ \A i \in 1..Len(items) :
              /\ items[i].id \in ids
              /\ Rank(ids, recs, field, index, items[i].id) = offset + i - 1
        /\ Len(items) = Cardinality({ id \in ids :
              /\ Rank(ids, recs, field, index, id) >= offset
              /\ Rank(ids, recs, field, index, id) < offset + limit })

\* C6: for every input, listContent and listArticles return the slice
\* [offset, offset + limit) of the filtered list sorted by timestamp descending,
\* and returnedCount <= limit, limit and offset being the input's (20 and 0 when
\* the input names none).
C6_PageOfInput ==
    LET limit  == IF Has(call.input, "limit") THEN call.input.limit ELSE DefaultLimit
        offset == IF Has(call.input, "offset") THEN call.input.offset ELSE 0
    IN  /\ (Invoked("listContent") /\ IsTemplate("success")) =>
              IsPage(Matching, content, "addedAt", contentIndex, offset, limit)
        /\ (Invoked("listArticles") /\ IsTemplate("success")) =>
              IsPage(DOMAIN article, article, "updatedAt", articleIndex, offset, limit)

\* The same with the limit and offset the code computes: a limit of 0 counts as
\* no limit given.
PageOfEffectiveLimit ==
    /\ (Invoked("listContent") /\ IsTemplate("success")) =>
          IsPage(Matching, content, "addedAt", contentIndex,
                 OffsetOf(call.input), LimitOf(call.input))
    /\ (Invoked("listArticles") /\ IsTemplate("success")) =>
          IsPage(DOMAIN article, article, "updatedAt", articleIndex,
                 OffsetOf(call.input), LimitOf(call.input))

IsPassthrough(r, type) == r.responseMode = "passthrough" /\ r.userContent.contentType = type

\* some id of the list the returning createArticle was passed was stored when it
\* was called
WillResolve == \E i \in 1..Len(call'.input.contentIds) :
                  call'.input.contentIds[i] \in DOMAIN before'.content

NoArticleWritten == article' = before'.article /\ articleIndex' = before'.articleIndex

OneArticleWritten ==
    \E a \in (DOMAIN article') \ (DOMAIN before'.article) :
        /\ DOMAIN article' = (DOMAIN before'.article) \cup {a}
        /\ \A o \in DOMAIN before'.article : article'[o] = before'.article[o]
        /\ article'[a].version = 1
        /\ articleIndex' = Append(before'.articleIndex, a)
        /\ IsPassthrough(result', "article")

\* C7 as stated: createArticle whose ids all fail to resolve returns a passthrough
\* error and writes nothing; with at least one resolvable id it writes exactly one
\* new Article at version 1.
C7_AsStated ==
    [][ WillInvoke("createArticle") =>
          IF WillResolve THEN OneArticleWritten
          ELSE IsPassthrough(result', "error") /\ NoArticleWritten
      ]_vars

\* C7 amended: createArticle whose ids all fail to resolve returns a passthrough
\* error and writes nothing; with at least one resolvable id it writes exactly one
\* new Article at version 1 when the credential is configured and the model call
\* returns, and writes nothing when either fails.
C7_Create ==
    [][ WillInvoke("createArticle") =>
          IF ~WillResolve THEN IsPassthrough(result', "error") /\ NoArticleWritten
          ELSE IF call'.env.hasKey /\ ~call'.env.modelThrows THEN OneArticleWritten
          ELSE NoArticleWritten
      ]_vars

\* an article was written from a list of which one id resolves and one does not
C7_Witness ==
    /\ Invoked("createArticle") /\ IsPassthrough(result, "article")
    /\ \E i \in 1..Len(call.input.contentIds) : call.input.contentIds[i] \notin DOMAIN content
    /\ article[result.userContent.metadata.articleId].version = 1

\* no step removes an article or lowers its version, and versions start at 1
VersionsMonotonic ==
    /\ \A a \in DOMAIN article : article[a].version >= 1
    /\ \A a \in DOMAIN article :
          a \in DOMAIN article' /\ article'[a].version >= article[a].version

\* the coming step is the return of an updateArticle of an article that was stored
\* when it was called
WillUpdateStored ==
    WillInvoke("updateArticle") /\ call'.input.articleId \in DOMAIN before'.article

\* C8 as stated: every stored Article has version >= 1, each updateArticle call on
\* an existing article raises its version by exactly 1, and no operation lowers a
\* version.
C8_AsStated ==
    [][ /\ VersionsMonotonic
        /\ WillUpdateStored =>
              article'[call'.input.articleId].version =
                  before'.article[call'.input.articleId].version + 1
      ]_vars

\* C8 amended: every stored Article has version >= 1, each updateArticle call on an
\* existing article that finds the credential and gets an answer from the model
\* raises the version by exactly 1, a call that fails leaves it, and no step lowers
\* a version.
C8_Versions ==
    [][ /\ VersionsMonotonic
        /\ WillUpdateStored =>
              article'[call'.input.articleId].version =
                  IF call'.env.hasKey /\ ~call'.env.modelThrows
                  THEN before'.article[call'.input.articleId].version + 1
                  ELSE before'.article[call'.input.articleId].version
      ]_vars

\* an article was revised
C8_Witness ==
    /\ Invoked("updateArticle") /\ IsPassthrough(result, "article")
    /\ article[call.input.articleId].version = 2

\* C9: a successful updateArticle with a non-empty additionalContentIds leaves
\* sourceContentIds holding exactly the previous and the supplied ids, none twice;
\* with additionalContentIds missing or empty it leaves sourceContentIds as it was.
C9_SourcesUnion ==
    (Invoked("updateArticle") /\ IsPassthrough(result, "article")) =>
        LET old == before.article[call.input.articleId].sourceContentIds
            new == article[call.input.articleId].sourceContentIds
            add == IF Has(call.input, "additionalContentIds")
                   THEN call.input.additionalContentIds ELSE <<>>
        IN  IF Len(add) > 0
            THEN /\ Range(new) = Range(old) \cup Range(add)
                 /\ Cardinality(Range(new)) = Len(new)
            ELSE new = old

\* two ids were supplied and the sources hold two ids: a supplied id was already
\* among the sources
C9_Witness ==
    /\ Invoked("updateArticle") /\ IsPassthrough(result, "article")
    /\ Has(call.input, "additionalContentIds")
    /\ Len(call.input.additionalContentIds) = 2
    /\ Len(article[call.input.articleId].sourceContentIds) = 2

\* C10: what a call of invoke returns is a result envelope; a missing storage handle,
\* an unknown action name and every exception thrown inside a handler (a storage
\* call, the credential lookup, the model call, a fetch, a read of the response body)
\* yield responseMode 'template' with template 'error'.
C10_AlwaysEnvelope ==
    (call.action # "none" /\ result.responseMode # "pending") =>
        /\ result.responseMode \in { "template", "passthrough" }
        /\ ~call.storage => IsTemplate("error")
        /\ call.action \notin ActionNames => IsTemplate("error")
        /\ call.fault # "none" => IsTemplate("error")

\* setArticle's index read threw after the record was written
C10_Witness ==
    /\ Invoked("createArticle") /\ call.fault = "storage" /\ IsTemplate("error")
    /\ DOMAIN article # {}
    /\ articleIndex = <<>>

TemplateActions == { "addInspiration", "listContent", "listArticles", "deleteContent" }

PassthroughActions == { "getContent", "createArticle", "updateArticle" }

\* C11: the response mode is fixed per action over all outcomes: addInspiration,
\* listContent, listArticles and deleteContent always answer responseMode 'template',
\* getContent, createArticle and updateArticle always answer 'passthrough'.
C11_ModeFixed ==
    /\ \A a \in TemplateActions : Invoked(a) => result.responseMode = "template"
    /\ \A a \in PassthroughActions : Invoked(a) => result.responseMode = "passthrough"

\* The half of it the code keeps: the four template actions never answer otherwise
TemplateActionsFixed ==
    \A a \in TemplateActions : Invoked(a) => result.responseMode = "template"

\* the ids the returning invocation drew before the one whose setContent threw
WrittenBeforeFailure == DrawnIds(call'.log) \ { nextId' }

Listed(id) == id \in DOMAIN content /\ Includes(contentIndex, id)

WillBeListed(id) == id \in DOMAIN content' /\ Includes(contentIndex', id)

\* C12: an addInspiration that fails on a storage call after j feed items were stored
\* answers template 'error' with contentCount 0, the j pieces and every piece stored
\* before stay stored and indexed; a stored and indexed piece stays so until a
\* deleteContent names it, and a listContent without filter lists all of them.
C12_NoRollback ==
    [][ /\ (WillInvoke("addInspiration") /\ call'.fault = "storage") =>
              /\ result' = Template([template |-> "error", type |-> "single",
                                     contentCount |-> 0])
              /\ \A id \in DOMAIN before'.content :
                    id \in DOMAIN content' /\ content'[id] = before'.content[id]
              /\ SubSeq(contentIndex', 1, Len(before'.contentIndex)) = before'.contentIndex
              /\ \A id \in WrittenBeforeFailure : WillBeListed(id)
        /\ \A id \in 1..nextId :
              (Listed(id) /\ ~(WillStep("deleteContent") /\ call'.input.contentId = id))
                  => WillBeListed(id)
        /\ (WillInvoke("listContent") /\ WillBeTemplate("success")
                /\ ~Has(call'.input, "tags")) =>
              ItemIds(result') = { id \in DOMAIN content' : Includes(contentIndex', id) }
      ]_vars

\* the second item of a feed failed to store: the first is stored and indexed
C12_Witness ==
    /\ Invoked("addInspiration") /\ IsTemplate("error")
    /\ call.fault = "storage" /\ call.env.detect = "feed"
    /\ nextId = 2
    /\ contentIndex = <<1>>
    /\ 1 \in DOMAIN content /\ content[1].inspirationType = "feed"

\* no step of the invocation that returns has changed the store
StoreKept ==
    /\ content' = before'.content
    /\ contentIndex' = before'.contentIndex
    /\ article' = before'.article
    /\ articleIndex' = before'.articleIndex

StoreUnchanged == UNCHANGED <<content, contentIndex, article, articleIndex>>

\* C13: createArticle with a resolvable content id, and updateArticle on an existing
\* article, invoked without the model credential, answer the error envelope carrying
\* getOpenAI's message and leave the store as it was: no Article is created and the
\* existing one keeps its content, version, updatedAt and sourceContentIds.
C13_NoCredential ==
    [][ ( /\ \/ WillInvoke("createArticle") /\ WillResolve
             \/ WillUpdateStored
          /\ ~call'.env.hasKey ) =>
            /\ result' = ErrorEnvelope("OPENAI_API_KEY not configured")
            /\ StoreKept
      ]_vars

\* a revised article was asked to be revised again without the credential
C13_Witness ==
    /\ Invoked("updateArticle") /\ call.fault = "credential"
    /\ result = ErrorEnvelope("OPENAI_API_KEY not configured")
    /\ article[call.input.articleId].version = 2

\* C14: getContent answers passthrough 'content' with the stored piece's title,
\* source, tags and addedAt exactly when a record is stored under the id, and the
\* passthrough error 'Content not found' otherwise.
C14_GetContent ==
    Invoked("getContent") =>
        LET id == call.input.contentId
        IN  IF id \in DOMAIN content
            THEN /\ IsPassthrough(result, "content")
                 /\ result.userContent.metadata =
                        [ title |-> content[id].title, tags |-> content[id].tags,
                          addedAt |-> content[id].addedAt, source |-> content[id].source ]
            ELSE result = Passthrough([content |-> "Content not found",
                                       contentType |-> "error"])

\* getContent of an id that was added and deleted again, another piece still stored
C14_Witness ==
    /\ Invoked("getContent") /\ IsPassthrough(result, "error")
    /\ call.input.contentId <= nextId
    /\ call.input.contentId \notin DOMAIN content
    /\ DOMAIN content # {}

\* the returning invocation consulted neither the credential nor the model, drew no
\* id and wrote nothing
NothingAsked ==
    /\ call'.fault = "none"
    /\ StoreKept
    /\ DrawnIds(call'.log) = {}
    /\ ~Asked(call'.log, "create")

\* C15: updateArticle on an id with no stored article answers the passthrough error
\* 'Article not found' without asking for the credential or the model and without
\* writing, whether or not a credential is configured; createArticle none of whose
\* ids resolves answers its passthrough error the same way.
C15_NotFoundFirst ==
    [][ /\ ( /\ WillInvoke("updateArticle")
             /\ call'.input.articleId \notin DOMAIN before'.article ) =>
              /\ result' = Passthrough([content |-> "Article not found",
                                        contentType |-> "error"])
              /\ NothingAsked
        /\ (WillInvoke("createArticle") /\ ~WillResolve) =>
              /\ result' = Passthrough([content |-> "No valid content pieces found",
                                        contentType |-> "error"])
              /\ NothingAsked
      ]_vars

\* an article is stored, another id was asked to be revised, with no credential and
\* the model out of reach
C15_Witness ==
    /\ Invoked("updateArticle") /\ IsPassthrough(result, "error")
    /\ ~call.env.hasKey /\ call.env.modelThrows
    /\ DOMAIN article # {}

\* C16: no step of a deleteContent changes an Article record or the article index:
\* an article whose sourceContentIds holds the deleted id still holds it.
C16_NoCascade ==
    [][ WillStep("deleteContent") => article' = article /\ articleIndex' = articleIndex
      ]_vars

\* a piece was deleted that a stored article names among its sources
C16_Witness ==
    /\ Invoked("deleteContent") /\ IsTemplate("success")
    /\ call.input.contentId \notin DOMAIN content
    /\ \E a \in DOMAIN article : Includes(article[a].sourceContentIds, call.input.contentId)

\* C17: a stored ContentPiece keeps every field from the invocation that creates it
\* until the deleteContent that removes it: no step changes a stored piece, and a
\* piece leaves the store only by a step of a deleteContent of its id.
C17_PieceImmutable ==
    [][ \A id \in DOMAIN content :
            IF id \in DOMAIN content'
            THEN content'[id] = content[id]
            ELSE WillStep("deleteContent") /\ call'.input.contentId = id
      ]_vars

\* a second invocation stored a page next to the piece of an earlier one
C17_Witness ==
    /\ Invoked("addInspiration") /\ IsTemplate("success")
    /\ result.agentData.type = "single"
    /\ DOMAIN content = {1, 2}

\* C18: after a successful updateArticle the stored article's instructions are the
\* instructions passed to that call.
C18_LastPrompt ==
    (Invoked("updateArticle") /\ IsPassthrough(result, "article")) =>
        article[call.input.articleId].instructions = call.input.instructions

\* What the code does instead: no updateArticle changes the stored instructions
InstructionsKept ==
    [][ WillUpdateStored =>
          article'[call'.input.articleId].instructions =
              before'.article[call'.input.articleId].instructions
      ]_vars

\* the fields of an article that a revision assigns
RevisedFields == { "content", "version", "updatedAt", "sourceContentIds" }

\* C19: a successful updateArticle changes at most content, version, updatedAt and
\* sourceContentIds of the target article: every other field of it, every other
\* article, the set of stored articles, the article index, and the content records
\* and index are as before.
C19_UpdateFrame ==
    [][ (WillUpdateStored /\ IsPassthrough(result', "article")) =>
          LET id == call'.input.articleId
              old == before'.article
          IN  /\ DOMAIN article' = DOMAIN old
              /\ \A a \in DOMAIN old \ { id } : article'[a] = old[a]
              /\ DOMAIN article'[id] = DOMAIN old[id]
              /\ \A f \in DOMAIN old[id] \ RevisedFields : article'[id][f] = old[id][f]
              /\ articleIndex' = before'.articleIndex
              /\ content' = before'.content
              /\ contentIndex' = before'.contentIndex
      ]_vars

\* one of two stored articles was revised, over stored content
C19_Witness ==
    /\ Invoked("updateArticle") /\ IsPassthrough(result, "article")
    /\ Cardinality(DOMAIN article) = 2
    /\ Len(articleIndex) = 2
    /\ DOMAIN content # {}
    /\ article[call.input.articleId].version = 2
    /\ \E a \in DOMAIN article : article[a].version = 1

\* the last call the stepping invocation has made
LastCall == call'.log[Len(call'.log)]

\* the step makes the call storage.set('content:index', ..) and suspends there
WritesIndex ==
    /\ result'.responseMode = "pending"
    /\ LastCall.op = "set"
    /\ LastCall.key = "content:index"

\* what the invocation writing the index got from its getContentIndex, the call
\* before
IndexRead == call'.log[Len(call'.log) - 1].val

\* the id the invocation writing the index has stored or deleted, the call before
\* that
IndexedId == call'.log[Len(call'.log) - 2].id

\* C20: with invocations overlapping, the index update is a read-modify-write that is
\* not atomic: the index changes only in the write step of an add or a delete, which
\* writes the index as that invocation read it earlier, with its own id added or
\* struck.  If no other write came in between, the index gains or loses exactly that
\* id; otherwise the write drops every id indexed since the read (the lost update) and
\* restores every id struck since the read.
C20_ReadModifyWrite ==
    [][ /\ contentIndex' # contentIndex => WritesIndex
        /\ WritesIndex =>
              LET adds == call'.action = "addInspiration"
              IN  /\ call'.action \in { "addInspiration", "deleteContent" }
                  /\ contentIndex' = IF adds THEN Append(IndexRead, IndexedId)
                                     ELSE SelectSeq(IndexRead, LAMBDA i : i # IndexedId)
                  /\ IndexRead = contentIndex =>
                        Range(contentIndex') =
                            IF adds THEN Range(contentIndex) \cup { IndexedId }
                            ELSE Range(contentIndex) \ { IndexedId }
                  /\ \A i \in Range(contentIndex) \ Range(contentIndex') :
                        (~adds /\ i = IndexedId) \/ ~Includes(IndexRead, i)
                  /\ \A i \in Range(contentIndex') \ Range(contentIndex) :
                        (adds /\ i = IndexedId) \/ Includes(IndexRead, i)
                  /\ content' = content
      ]_vars

\* every invocation has returned; two added records are stored and the index holds
\* the id of only one of them (the other add's write was lost), and it holds the id of
\* a deleted record (the delete's write was overwritten by an add's)
C20_Witness ==
    /\ inflight = <<>>
    /\ \E x, y \in DOMAIN content :
          /\ x # y
          /\ content[x].inspirationType = "single" /\ content[y].inspirationType = "single"
          /\ ~Includes(contentIndex, x)
          /\ Includes(contentIndex, y)
    /\ \E z \in Range(contentIndex) : z \notin DOMAIN content

\* C21: the record is written or deleted first, the index second.  No step of an
\* addInspiration indexes an id whose record is not stored already; one cut short by
\* a failing storage call leaves the last id it drew either not stored or stored and
\* not indexed, and every other piece it stored indexed; a record left outside the
\* index stays outside it, getContent returns it and listContent lists only indexed
\* ids.  A deleteContent cut short after its record delete leaves the index as it
\* was, so an indexed id stays indexed with its record gone; and no step of a
\* deleteContent changes the index while the record stays.
C21_RecordFirst ==
    [][ /\ WillStep("addInspiration") =>
              \A id \in Range(contentIndex') \ Range(contentIndex) : id \in DOMAIN content
        /\ WillInvoke("addInspiration") =>
              /\ \A id \in DOMAIN content' \ DOMAIN before'.content :
                    ~Includes(contentIndex', id) => (call'.fault = "storage" /\ id = nextId')
              /\ (call'.fault = "storage" /\ nextId' \in DOMAIN content') =>
                    ~Includes(contentIndex', nextId')
        /\ \A id \in DOMAIN content \ DrawnIds(call'.log) :
              ~Includes(contentIndex, id) => ~Includes(contentIndex', id)
        /\ (WillInvoke("getContent") /\ call'.fault = "none"
                /\ call'.input.contentId \in DOMAIN content) =>
              IsPassthrough(result', "content")
        /\ (WillInvoke("listContent") /\ WillBeTemplate("success")) =>
              ItemIds(result') \subseteq Range(contentIndex')
        /\ (WillStep("deleteContent") /\ call'.input.contentId \in DOMAIN content') =>
              contentIndex' = contentIndex
        /\ WillInvoke("deleteContent") =>
              LET id == call'.input.contentId
              IN  (call'.fault = "storage" /\ id \in DOMAIN before'.content
                      /\ id \notin DOMAIN content') =>
                        contentIndex' = before'.contentIndex
      ]_vars

\* getContent returns a record that an interrupted add left outside the index, while
\* the index holds the id of a record that an interrupted delete removed
C21_Witness ==
    /\ Invoked("getContent") /\ IsPassthrough(result, "content")
    /\ ~Includes(contentIndex, call.input.contentId)
    /\ \E id \in Range(contentIndex) : id \notin DOMAIN content

\* C22: whatever the index and the records hold, listContent and listArticles return
\* without error; on a non-empty index they answer 'success', list only ids that are
\* indexed and have a record, and totalCount is the number of indexed ids whose
\* record resolves (and, for listContent, shares a tag with the filter), not the
\* length of the index.
C22_DriftTolerated ==
    /\ Invoked("listContent") =>
          /\ call.fault = "none"
          /\ IF contentIndex = <<>> THEN result = EmptyListing
             ELSE /\ IsTemplate("success")
                  /\ ItemIds(result) \subseteq Range(contentIndex) \cap DOMAIN content
                  /\ result.agentData.totalCount =
                        Cardinality(Range(contentIndex) \cap Matching)
    /\ Invoked("listArticles") =>
          /\ call.fault = "none"
          /\ IF articleIndex = <<>> THEN result = EmptyListing
             ELSE /\ IsTemplate("success")
                  /\ ItemIds(result) \subseteq Range(articleIndex) \cap DOMAIN article
                  /\ result.agentData.totalCount =
                        Cardinality(Range(articleIndex) \cap DOMAIN article)

\* a filtered listContent over an index of two ids, one of them without a record
C22_Witness ==
    /\ Invoked("listContent") /\ IsTemplate("success")
    /\ Has(call.input, "tags")
    /\ Len(contentIndex) = 2
    /\ \E id \in Range(contentIndex) : id \notin DOMAIN content
    /\ result.agentData.totalCount = 1

\* C23: under serialized invocations neither index holds an id twice; no step of an
\* updateArticle of a stored article changes the article index, and a successful
\* listArticles answers totalCount = the length of the article index, so a revision
\* does not change it.
C23_NoDuplicates ==
    [][ /\ Cardinality(Range(contentIndex')) = Len(contentIndex')
        /\ Cardinality(Range(articleIndex')) = Len(articleIndex')
        /\ (WillStep("updateArticle") /\ call'.input.articleId \in DOMAIN article) =>
              articleIndex' = articleIndex
        /\ (WillInvoke("listArticles") /\ WillBeTemplate("success")) =>
              result'.agentData.totalCount = Len(articleIndex')
      ]_vars

\* listArticles counts one article after its revision
C23_Witness ==
    /\ Invoked("listArticles") /\ IsTemplate("success")
    /\ result.agentData.totalCount = 1
    /\ articleIndex = <<2>>
    /\ article[2].version = 2

\* C24: an id that the content index holds with its record missing when invoke is
\* called stays in the index with its record missing on every step of the
\* invocation, whatever the action, and a deleteContent of it that reaches the store
\* answers 'notFound' and leaves the index as it was.
C24_DanglingStays ==
    [][ /\ \A id \in Range(before'.contentIndex) \ DOMAIN before'.content :
              Includes(contentIndex', id) /\ id \notin DOMAIN content'
        /\ (WillInvoke("deleteContent") /\ call'.fault = "none"
                /\ call'.input.contentId \notin DOMAIN before'.content) =>
              /\ WillBeTemplate("notFound")
              /\ contentIndex' = before'.contentIndex
      ]_vars

\* deleteContent of an id that is indexed and has no record answered 'notFound'
C24_Witness ==
    /\ Invoked("deleteContent") /\ IsTemplate("notFound")
    /\ Includes(contentIndex, call.input.contentId)
    /\ call.input.contentId \notin DOMAIN content

\* C25: no step of a listContent, a getContent or a listArticles, no deleteContent
\* that answers 'notFound', no unknown action name and no invocation without storage
\* changes a record or an index.
C25_ReadOnly ==
    [][ /\ ( \/ WillStep("listContent")
             \/ WillStep("getContent")
             \/ WillStep("listArticles")
             \/ call'.action \notin ActionNames
             \/ ~call'.storage ) => StoreUnchanged
        /\ (WillInvoke("deleteContent") /\ WillBeTemplate("notFound")) => StoreKept
      ]_vars

\* listContent answered over a store that holds a piece and an index entry without
\* record
C25_Witness ==
    /\ Invoked("listContent") /\ IsTemplate("success")
    /\ result.agentData.totalCount = 1
    /\ \E id \in Range(contentIndex) : id \notin DOMAIN content

\* C26: when the model answers with a missing or an empty content, a successful
\* updateArticle keeps the article's content, raises version by 1 and sets updatedAt
\* to the time of the call; a successful createArticle stores a new article of
\* version 1 with empty content, titled by the supplied title if there is one and
\* 'Untitled Article' if not.
C26_BlankCompletion ==
    [][ ( /\ IsPassthrough(result', "article")
          /\ ~(Has(call'.env.completion, "content")
                 /\ call'.env.completion.content # TextEmpty) ) =>
          /\ WillInvoke("updateArticle") =>
                LET id == call'.input.articleId
                IN  /\ article'[id].content = before'.article[id].content
                    /\ article'[id].version = before'.article[id].version + 1
                    /\ article'[id].updatedAt = now'
          /\ WillInvoke("createArticle") =>
                /\ nextId' \notin DOMAIN before'.article
                /\ article'[nextId'].version = 1
                /\ article'[nextId'].content = TextEmpty
                /\ article'[nextId'].title =
                      IF Has(call'.input, "title") /\ call'.input.title # ""
                      THEN call'.input.title ELSE "Untitled Article"
      ]_vars

\* an article with text was revised by an empty completion, later than it was made
C26_Witness ==
    /\ Invoked("updateArticle") /\ IsPassthrough(result, "article")
    /\ Has(call.env.completion, "content") /\ call.env.completion.content = TextEmpty
    /\ article[call.input.articleId].content # TextEmpty
    /\ article[call.input.articleId].version = 2
    /\ article[call.input.articleId].updatedAt > article[call.input.articleId].createdAt

\* C27: a successful createArticle stores sourceContentIds equal to the supplied
\* contentIds, ids that do not resolve and repeated ids included; a successful
\* updateArticle with additionalContentIds leaves every one of them in
\* sourceContentIds, whether or not it resolves.
C27_SourcesAsSupplied ==
    [][ IsPassthrough(result', "article") =>
          /\ WillInvoke("createArticle") =>
                article'[nextId'].sourceContentIds = call'.input.contentIds
          /\ (WillInvoke("updateArticle") /\ Has(call'.input, "additionalContentIds")) =>
                Range(call'.input.additionalContentIds) \subseteq
                    Range(article'[call'.input.articleId].sourceContentIds)
      ]_vars

\* an article was created from two ids of which one resolves to no record
C27_Witness ==
    /\ Invoked("createArticle") /\ IsPassthrough(result, "article")
    /\ Len(call.input.contentIds) = 2
    /\ \E i \in 1..2 : call.input.contentIds[i] \notin DOMAIN content
    /\ article[nextId].sourceContentIds = call.input.contentIds

=============================================================================
